---- MODULE Spec2Model ----
(***************************************************************************)
(* State machines of the VCTCareer onboarding surface:                     *)
(*   - the milestone stepper of the landing page (landing.jsx): wheel      *)
(*     events, the throttle, the clamped index, the canStart effect;       *)
(*   - the intake form of the landing modal (modal.jsx): field edits,      *)
(*     the browser's constraint validation, handleSubmit and its gateway   *)
(*     call, the toast acknowledgment with its storage write.              *)
(* The two components share no state; StepperSpec and FormSpec run one of  *)
(* them each and leave the other's variables alone.                        *)
(***************************************************************************)
EXTENDS Integers, Sequences, FiniteSets

VARIABLES
    \* ---- landing.jsx: Landing ----
    mounted,        \* the Landing component is mounted
    activeIdx,      \* useState(0), the committed value
    canStart,       \* useState(false), the committed value
    lastScroll,     \* useRef(0).current
    listening,      \* handleWheel is registered on #roadmap-scroll-lock
    effectsPending, \* a render changed activeIdx and its effects have not run yet
    bodyOverflow,   \* document.body.style.overflow
    now,            \* Date.now()
    wheelOutcome,   \* what handleWheel did with the last wheel event
    nAccepted,      \* history: wheel events accepted since mount
    directions,     \* history: the directions of the events accepted since mount
    acceptedAt,     \* history: Date.now() at the last accepted event (0: none yet)
    \* ---- modal.jsx: LandingModal ----
    show,           \* the show prop
    age, rank, division, experience,
    submitted, apiResult, loading, error, showToast,
    requests,       \* fetch calls whose promise has not settled (request bodies)
    netCalls,       \* history: number of fetch calls made
    storage,        \* localStorage: the item stored under each key
    storageWrites,  \* history: number of localStorage.setItem calls
    location,       \* window.location.href
    unloaded,       \* the navigation has replaced the document that held the modal
    navigations,    \* history: number of assignments to window.location.href
    lastOp,         \* history: the event handled last
    lastData        \* history: the body of the last gateway response

stepperVars == <<mounted, activeIdx, canStart, lastScroll, listening, effectsPending,
                 bodyOverflow, now, wheelOutcome, nAccepted, directions, acceptedAt>>
formVars == <<show, age, rank, division, experience, submitted, apiResult, loading,
              error, showToast, requests, netCalls, storage, storageWrites, location,
              unloaded, navigations, lastOp, lastData>>
vars == <<stepperVars, formVars>>

(***************************************************************************)
(* The milestone stepper (landing.jsx)                                     *)
(***************************************************************************)

\* milestones.length
NumMilestones == 6

SCROLL_THROTTLE_MS == 250

\* Date.now() when the page is first mounted: milliseconds since 1970, far more
\* than the throttle window, so that the first event finds now - 0 >= 250.
MountTime == 1000
\* The clock stops here.
MaxNow == 2500
\* Time between two observations of the clock: inside and outside the window.
TickSteps == {100, SCROLL_THROTTLE_MS}

\* e.deltaY of a WheelEvent: a double, possibly NaN for a synthetic event.
Deltas == { [nan |-> FALSE, v |-> -100], [nan |-> FALSE, v |-> 0],
            [nan |-> FALSE, v |-> 100],  [nan |-> TRUE,  v |-> 0] }

\* e.deltaY > 0 (false for NaN)
GreaterThanZero(d) == ~d.nan /\ d.v > 0
\* e.deltaY < 0 (false for NaN)
LessThanZero(d) == ~d.nan /\ d.v < 0

\* What an event asks for: forward, backward, or neither (zero, NaN).
Direction(d) ==
    IF GreaterThanZero(d) THEN "forward"
    ELSE IF LessThanZero(d) THEN "backward"
    ELSE "neither"

\* The directions seen so far, with one more.
Combine(seen, dir) ==
    IF seen = "none" \/ seen = dir THEN dir ELSE "mixed"

UpdaterNoClamp(idx, d) ==
    IF GreaterThanZero(d) THEN idx + 1 ELSE idx - 1

UpdaterStopsEarly(idx, d) ==
    IF GreaterThanZero(d)
      THEN IF idx < NumMilestones - 2 THEN idx + 1 ELSE idx
      ELSE IF idx > 0 THEN idx - 1 ELSE idx

\* The updater passed to setActiveIdx.
Updater(idx, d) ==
    IF GreaterThanZero(d)
      THEN IF idx < NumMilestones - 1 THEN idx + 1 ELSE idx
      ELSE IF idx > 0 THEN idx - 1 ELSE idx

ThrottledNever(t, last) == FALSE

\* now - lastScroll.current < SCROLL_THROTTLE_MS
Throttled(t, last) == t - last < SCROLL_THROTTLE_MS

StepperInit ==
    /\ mounted = TRUE
    /\ activeIdx = 0
    /\ canStart = FALSE
    /\ lastScroll = 0
    /\ listening = FALSE
    /\ effectsPending = TRUE
    /\ bodyOverflow = ""
    /\ now = MountTime
    /\ wheelOutcome = "none"
    /\ nAccepted = 0
    /\ directions = "none"
    /\ acceptedAt = 0

\* handleWheel returns before anything else when the event is inside the window.
WheelThrottled(d) ==
    /\ mounted /\ listening
    /\ Throttled(now, lastScroll)
    /\ wheelOutcome' = "throttled"
    /\ UNCHANGED <<mounted, activeIdx, canStart, lastScroll, listening, effectsPending,
                   bodyOverflow, now, nAccepted, directions, acceptedAt>>

WheelAcceptedStampsMovesOnly(d) ==
    /\ mounted /\ listening
    /\ ~Throttled(now, lastScroll)
    /\ activeIdx' = Updater(activeIdx, d)
    /\ lastScroll' = IF activeIdx' # activeIdx THEN now ELSE lastScroll
    /\ wheelOutcome' = "prevented"
    /\ effectsPending' = (effectsPending \/ activeIdx' # activeIdx)
    /\ bodyOverflow' = "hidden"
    /\ nAccepted' = nAccepted + 1
    /\ directions' = Combine(directions, Direction(d))
    /\ acceptedAt' = now
    /\ UNCHANGED <<mounted, canStart, listening, now>>

\* handleWheel on an event outside the window, and the render its setActiveIdx
\* causes (none when the updater returns the same index).
WheelAccepted(d) ==
    /\ mounted /\ listening
    /\ ~Throttled(now, lastScroll)
    /\ lastScroll' = now
    /\ wheelOutcome' = "prevented"
    /\ activeIdx' = Updater(activeIdx, d)
    /\ effectsPending' = (effectsPending \/ activeIdx' # activeIdx)
    /\ bodyOverflow' = "hidden"
    /\ nAccepted' = nAccepted + 1
    /\ directions' = Combine(directions, Direction(d))
    /\ acceptedAt' = now
    /\ UNCHANGED <<mounted, canStart, listening, now>>

\* A wheel event on the roadmap container.
Wheel == \E d \in Deltas : WheelThrottled(d) \/ WheelAccepted(d)

RunEffectsLatched ==
    /\ mounted /\ effectsPending
    /\ listening' = TRUE
    /\ canStart' = (canStart \/ activeIdx = NumMilestones - 1)
    /\ effectsPending' = FALSE
    /\ UNCHANGED <<mounted, activeIdx, lastScroll, bodyOverflow, now, wheelOutcome,
                   nAccepted, directions, acceptedAt>>

\* The two effects with dependency [activeIdx], run after the render is committed:
\* the wheel effect's cleanup and body (the listener is removed and registered
\* again), and setCanStart(activeIdx === milestones.length - 1).
RunEffects ==
    /\ mounted /\ effectsPending
    /\ listening' = TRUE
    /\ canStart' = (activeIdx = NumMilestones - 1)
    /\ effectsPending' = FALSE
    /\ UNCHANGED <<mounted, activeIdx, lastScroll, bodyOverflow, now, wheelOutcome,
                   nAccepted, directions, acceptedAt>>

\* The route changes and Landing is unmounted: the wheel effect's cleanup runs.
Unmount ==
    /\ mounted
    /\ mounted' = FALSE
    /\ listening' = FALSE
    /\ effectsPending' = FALSE
    /\ UNCHANGED <<activeIdx, canStart, lastScroll, bodyOverflow, now, wheelOutcome,
                   nAccepted, directions, acceptedAt>>

\* Landing is mounted again: fresh useState and useRef values.
Mount ==
    /\ ~mounted
    /\ mounted' = TRUE
    /\ activeIdx' = 0
    /\ canStart' = FALSE
    /\ lastScroll' = 0
    /\ listening' = FALSE
    /\ effectsPending' = TRUE
    /\ wheelOutcome' = "none"
    /\ nAccepted' = 0
    /\ directions' = "none"
    /\ acceptedAt' = 0
    /\ UNCHANGED <<bodyOverflow, now>>

\* Time passes.
Tick ==
    /\ \E s \in TickSteps :
          /\ now + s <= MaxNow
          /\ now' = now + s
    /\ UNCHANGED <<mounted, activeIdx, canStart, lastScroll, listening, effectsPending,
                   bodyOverflow, wheelOutcome, nAccepted, directions, acceptedAt>>

(***************************************************************************)
(* The intake form (modal.jsx)                                             *)
(***************************************************************************)

\* JavaScript's null, and the values that stand where null may stand too.
NullValue == [t |-> "null"]
Str(s) == [t |-> "string", s |-> s]

rankOptions == <<"Iron", "Bronze", "Silver", "Gold", "Platinum", "Diamond",
                 "Ascendant", "Immortal", "Radiant">>
experienceOptions == <<"Tier 1", "Tier 2", "Tier 3", "None">>
divisionOptions == <<"1", "2", "3">>

Range(seq) == { seq[i] : i \in DOMAIN seq }

\* Array.prototype.indexOf: the 0-based position, -1 when absent.
IndexOf(seq, x) ==
    IF x \in Range(seq) THEN (CHOOSE i \in DOMAIN seq : seq[i] = x) - 1 ELSE -1

\* What the user may type into the number input: its value is '' or a numeral.
AgeInputs == {"", "15", "16", "99", "100"}

\* Number(age); Number('') is 0.
Number(s) ==
    CASE s = ""    -> 0
      [] s = "15"  -> 15
      [] s = "16"  -> 16
      [] s = "99"  -> 99
      [] s = "100" -> 100

\* Bodies the gateway may answer with: a starting_tier label and a career_info.
Results == { [t |-> "object", starting_tier |-> "Tier 3", career_info |-> "infoA"],
             [t |-> "object", starting_tier |-> "Tier 1", career_info |-> "infoB"] }

\* How a fetch may settle: a 2xx response with a JSON body, a rejected fetch,
\* a response with !res.ok, a body res.json() rejects.
FailureKinds == {"transport", "status", "body"}

\* fetch calls one form instance is followed for.
MaxCalls == 2

ErrorMessage == "Failed to create career. Please try again."

ExperienceNeverDisabled == FALSE

\* disabled={rankOptions.indexOf(rank) < 7 && rank} of the experience select
ExperienceDisabled == IndexOf(rankOptions, rank) < 7 /\ rank # ""

\* value={rankOptions.indexOf(rank) < 7 && rank ? 'None' : experience}
ExperienceValue == IF ExperienceDisabled THEN "None" ELSE experience

\* {rank && rank !== 'Radiant' && ( ...division select... )}
DivisionRendered == rank # "" /\ rank # "Radiant"

\* disabled={rank && rank !== 'Radiant' && !division} of the submit button
SubmitDisabled == rank # "" /\ rank # "Radiant" /\ division = ""

ViewFormWhileLoading ==
    IF submitted /\ apiResult # NullValue /\ ~showToast THEN "result"
    ELSE IF submitted /\ apiResult = NullValue /\ ~loading THEN "error"
    ELSE "form"

\* The branch of the conditional the modal renders under its header.
View ==
    IF submitted /\ apiResult # NullValue /\ ~showToast THEN "result"
    ELSE IF submitted /\ apiResult = NullValue /\ ~loading THEN "error"
    ELSE IF loading THEN "loading"
    ELSE "form"

\* The document is still the one that holds the modal, and the modal renders.
Rendered == show /\ ~unloaded

FormShown == Rendered /\ View = "form"

\* {showToast && apiResult && ( ...toast with its OK button... )}
ToastShown == showToast /\ apiResult # NullValue

\* The error text is rendered by the second branch only: {error || 'Unknown error.'}
ErrorShown == Rendered /\ View = "error"

\* The browser's constraint validation of the form's controls, which runs before
\* the submit event is dispatched (the form has no noValidate).
AgeValidNoRange == age # ""

AgeValid == age # "" /\ Number(age) >= 16 /\ Number(age) <= 99
RankValid == rank # ""
DivisionValid == DivisionRendered => division # ""
\* a disabled control is barred from constraint validation
ExperienceValid == ExperienceDisabled \/ experience # ""

ConstraintsValid == AgeValid /\ RankValid /\ DivisionValid /\ ExperienceValid

\* A submit gesture reaches handleSubmit: the form is rendered, its submit
\* button is not disabled, and the controls are valid.
CanSubmit == FormShown /\ ~SubmitDisabled /\ ConstraintsValid

RequestBodyDivisionAsIs ==
    [ age |-> Number(age),
      current_rank |-> rank,
      past_experience |-> experience,
      division |-> Str(division) ]

\* The body handleSubmit passes to fetch.
RequestBody ==
    [ age |-> Number(age),
      current_rank |-> rank,
      past_experience |-> experience,
      division |-> IF rank = "Radiant" THEN NullValue ELSE Str(division) ]

\* JSON.stringify(apiResult)
Stringify(v) == [t |-> "json", of |-> v]

\* The key handleToastConfirm writes, and another key of the same origin.
CareerKey == "valorantCareer"
StorageKeys == {CareerKey, "otherKey"}

\* What localStorage may hold when the modal opens: nothing under the career
\* key, or the item of an earlier onboarding.
EarlierItem == Stringify([t |-> "object", starting_tier |-> "Tier 2", career_info |-> "infoOld"])
OtherItem == [t |-> "string", s |-> "other"]
InitialStorages ==
    { [k \in StorageKeys |-> IF k = CareerKey THEN v ELSE OtherItem] :
         v \in {NullValue, EarlierItem} }

\* localStorage.setItem(key, value)
SetItem(st, key, value) == [st EXCEPT ![key] = value]

FormInit ==
    /\ show = TRUE
    /\ age = "" /\ rank = "" /\ division = "" /\ experience = ""
    /\ submitted = FALSE
    /\ apiResult = NullValue
    /\ loading = FALSE
    /\ error = NullValue
    /\ showToast = FALSE
    /\ requests = <<>>
    /\ netCalls = 0
    /\ storage \in InitialStorages
    /\ storageWrites = 0
    /\ location = "/"
    /\ unloaded = FALSE
    /\ navigations = 0
    /\ lastOp = "none"
    /\ lastData = NullValue

\* The submission status the flags stand for.
Status ==
    IF loading THEN "Submitting"
    ELSE IF apiResult # NullValue THEN "Succeeded"
    ELSE IF error # NullValue THEN "Failed"
    ELSE "Idle"

submissionVars == <<submitted, apiResult, loading, error, showToast, requests, netCalls>>
persistVars == <<storage, storageWrites, location, unloaded, navigations>>

\* onChange of the age input
SetAge(v) ==
    /\ FormShown
    /\ v # age
    /\ age' = v
    /\ lastOp' = "setAge"
    /\ UNCHANGED <<show, rank, division, experience, submissionVars, persistVars, lastData>>

SetRankKeepsDivision(r) ==
    /\ FormShown
    /\ r # rank
    /\ rank' = r
    /\ lastOp' = "setRank"
    /\ UNCHANGED <<show, age, division, experience, submissionVars, persistVars, lastData>>

SetRankClearsForRadiantOnly(r) ==
    /\ FormShown
    /\ r # rank
    /\ rank' = r
    /\ division' = IF r = "Radiant" THEN "" ELSE division
    /\ lastOp' = "setRank"
    /\ UNCHANGED <<show, age, experience, submissionVars, persistVars, lastData>>

SetRankForcesNone(r) ==
    /\ FormShown
    /\ r # rank
    /\ rank' = r
    /\ division' = ""
    /\ experience' = IF IndexOf(rankOptions, r) < 7 THEN "None" ELSE experience
    /\ lastOp' = "setRank"
    /\ UNCHANGED <<show, age, submissionVars, persistVars, lastData>>

\* onChange of the rank select: setRank(e.target.value); setDivision('')
SetRank(r) ==
    /\ FormShown
    /\ r # rank
    /\ rank' = r
    /\ division' = ""
    /\ lastOp' = "setRank"
    /\ UNCHANGED <<show, age, experience, submissionVars, persistVars, lastData>>

\* onChange of the division select, which exists only while DivisionRendered
SetDivision(d) ==
    /\ FormShown
    /\ DivisionRendered
    /\ d # division
    /\ division' = d
    /\ lastOp' = "setDivision"
    /\ UNCHANGED <<show, age, rank, experience, submissionVars, persistVars, lastData>>

\* The user tries to pick another option of the experience select: its onChange
\* runs setExperience unless the select is disabled, which takes no input.
EditExperience(x) ==
    /\ FormShown
    /\ x # ExperienceValue
    /\ IF ExperienceDisabled
         THEN /\ lastOp' = "editExperienceIgnored"
              /\ UNCHANGED experience
         ELSE /\ lastOp' = "editExperience"
              /\ experience' = x
    /\ UNCHANGED <<show, age, rank, division, submissionVars, persistVars, lastData>>

HandleSubmitKeepsResult ==
    /\ loading' = TRUE
    /\ error' = NullValue
    /\ requests' = Append(requests, RequestBody)
    /\ netCalls' = netCalls + 1
    /\ lastOp' = "submit"
    /\ UNCHANGED <<submitted, showToast, apiResult>>

HandleSubmitKeepsError ==
    /\ loading' = TRUE
    /\ apiResult' = NullValue
    /\ requests' = Append(requests, RequestBody)
    /\ netCalls' = netCalls + 1
    /\ lastOp' = "submit"
    /\ UNCHANGED <<submitted, showToast, error>>

\* handleSubmit up to its await: the three setters and the fetch call.
HandleSubmit ==
    /\ loading' = TRUE
    /\ error' = NullValue
    /\ apiResult' = NullValue
    /\ requests' = Append(requests, RequestBody)
    /\ netCalls' = netCalls + 1
    /\ lastOp' = "submit"
    /\ UNCHANGED <<submitted, showToast>>

\* The user makes a submit gesture (the button, or Enter in a field).
Submit ==
    /\ Rendered
    /\ netCalls < MaxCalls
    /\ IF CanSubmit
         THEN HandleSubmit
         ELSE /\ lastOp' = "submitRejected"
              /\ UNCHANGED submissionVars
    /\ UNCHANGED <<show, age, rank, division, experience, persistVars, lastData>>

RespondOkWithoutToast(i, data) ==
    /\ ~unloaded
    /\ i \in DOMAIN requests
    /\ requests' = SubSeq(requests, 1, i - 1) \o SubSeq(requests, i + 1, Len(requests))
    /\ apiResult' = data
    /\ submitted' = TRUE
    /\ loading' = FALSE
    /\ lastOp' = "respondOk"
    /\ lastData' = data
    /\ UNCHANGED <<show, age, rank, division, experience, error, showToast, netCalls,
                   persistVars>>

\* handleSubmit after its awaits, for a response with res.ok and a JSON body.
RespondOk(i, data) ==
    /\ ~unloaded
    /\ i \in DOMAIN requests
    /\ requests' = SubSeq(requests, 1, i - 1) \o SubSeq(requests, i + 1, Len(requests))
    /\ apiResult' = data
    /\ submitted' = TRUE
    /\ showToast' = TRUE
    /\ loading' = FALSE
    /\ lastOp' = "respondOk"
    /\ lastData' = data
    /\ UNCHANGED <<show, age, rank, division, experience, error, netCalls, persistVars>>

RespondFailUncaught(i, kind) ==
    /\ ~unloaded
    /\ i \in DOMAIN requests
    /\ requests' = SubSeq(requests, 1, i - 1) \o SubSeq(requests, i + 1, Len(requests))
    /\ error' = IF kind = "body" THEN error ELSE Str(ErrorMessage)
    /\ loading' = FALSE
    /\ lastOp' = "respondFail"
    /\ UNCHANGED <<show, age, rank, division, experience, submitted, apiResult, showToast,
                   netCalls, persistVars, lastData>>

RespondFailKeepsLoading(i, kind) ==
    /\ ~unloaded
    /\ i \in DOMAIN requests
    /\ requests' = SubSeq(requests, 1, i - 1) \o SubSeq(requests, i + 1, Len(requests))
    /\ error' = Str(ErrorMessage)
    /\ lastOp' = "respondFail"
    /\ UNCHANGED <<show, age, rank, division, experience, submitted, apiResult, showToast,
                   loading, netCalls, persistVars, lastData>>

\* handleSubmit after its awaits, through catch and finally.
RespondFail(i, kind) ==
    /\ ~unloaded
    /\ i \in DOMAIN requests
    /\ requests' = SubSeq(requests, 1, i - 1) \o SubSeq(requests, i + 1, Len(requests))
    /\ error' = Str(ErrorMessage)
    /\ loading' = FALSE
    /\ lastOp' = "respondFail"
    /\ UNCHANGED <<show, age, rank, division, experience, submitted, apiResult, showToast,
                   netCalls, persistVars, lastData>>

ConfirmFrame ==
    UNCHANGED <<show, age, rank, division, experience, submitted, apiResult, loading,
                error, requests, netCalls, lastData>>

HandleToastConfirmKeepsToast(setItemThrows) ==
    /\ Rendered /\ ToastShown
    /\ IF setItemThrows
         THEN /\ lastOp' = "confirmThrew"
              /\ UNCHANGED <<persistVars, showToast>>
         ELSE /\ storage' = SetItem(storage, CareerKey, Stringify(apiResult))
              /\ storageWrites' = storageWrites + 1
              /\ location' = "/career"
              /\ navigations' = navigations + 1
              /\ lastOp' = "confirm"
              /\ UNCHANGED <<unloaded, showToast>>
    /\ ConfirmFrame

HandleToastConfirmNavigatesFirst(setItemThrows) ==
    /\ Rendered /\ ToastShown
    /\ location' = "/career"
    /\ navigations' = navigations + 1
    /\ IF setItemThrows
         THEN /\ lastOp' = "confirmThrew"
              /\ UNCHANGED <<storage, storageWrites, unloaded, showToast>>
         ELSE /\ storage' = SetItem(storage, CareerKey, Stringify(apiResult))
              /\ storageWrites' = storageWrites + 1
              /\ showToast' = FALSE
              /\ lastOp' = "confirm"
              /\ UNCHANGED unloaded
    /\ ConfirmFrame

HandleToastConfirmStoresLabelOnly(setItemThrows) ==
    /\ Rendered /\ ToastShown
    /\ IF setItemThrows
         THEN /\ lastOp' = "confirmThrew"
              /\ UNCHANGED <<persistVars, showToast>>
         ELSE /\ storage' = SetItem(storage, CareerKey,
                     Stringify([t |-> "object", starting_tier |-> apiResult.starting_tier]))
              /\ storageWrites' = storageWrites + 1
              /\ location' = "/career"
              /\ navigations' = navigations + 1
              /\ showToast' = FALSE
              /\ lastOp' = "confirm"
              /\ UNCHANGED unloaded
    /\ ConfirmFrame

\* handleToastConfirm, from the toast's OK button. localStorage.setItem may throw
\* (quota, storage disabled); the exception then leaves the handler at once.
HandleToastConfirm(setItemThrows) ==
    /\ Rendered /\ ToastShown
    /\ IF apiResult # NullValue
         THEN IF setItemThrows
                THEN /\ lastOp' = "confirmThrew"
                     /\ UNCHANGED <<persistVars, showToast>>
                ELSE /\ storage' = SetItem(storage, CareerKey, Stringify(apiResult))
                     /\ storageWrites' = storageWrites + 1
                     /\ location' = "/career"
                     /\ navigations' = navigations + 1
                     /\ showToast' = FALSE
                     /\ lastOp' = "confirm"
                     /\ UNCHANGED unloaded
         ELSE /\ showToast' = FALSE
              /\ lastOp' = "confirm"
              /\ UNCHANGED persistVars
    /\ UNCHANGED <<show, age, rank, division, experience, submitted, apiResult, loading,
                   error, requests, netCalls, lastData>>

\* onClose, from either Close button or the x: the parent stops showing the modal.
Close ==
    /\ Rendered
    /\ show' = FALSE
    /\ lastOp' = "close"
    /\ UNCHANGED <<age, rank, division, experience, submissionVars, persistVars, lastData>>

Init == StepperInit /\ FormInit

StepperNext ==
    \/ (Wheel /\ UNCHANGED formVars)
    \/ (RunEffects /\ UNCHANGED formVars)
    \/ (Unmount /\ UNCHANGED formVars)
    \/ (Mount /\ UNCHANGED formVars)
    \/ (Tick /\ UNCHANGED formVars)

StepperSpec == Init /\ [][StepperNext]_vars

\* The navigation started by the assignment to window.location.href completes:
\* the document, with the component and its handlers, is gone.
Unload ==
    /\ location # "/"
    /\ ~unloaded
    /\ unloaded' = TRUE
    /\ lastOp' = "unload"
    /\ UNCHANGED <<show, age, rank, division, experience, submissionVars, storage,
                   storageWrites, location, navigations, lastData>>

FormNext ==
    \/ (\E v \in AgeInputs : SetAge(v) /\ UNCHANGED stepperVars)
    \/ (\E r \in Range(rankOptions) : SetRank(r) /\ UNCHANGED stepperVars)
    \/ (\E d \in Range(divisionOptions) : SetDivision(d) /\ UNCHANGED stepperVars)
    \/ (\E x \in Range(experienceOptions) : EditExperience(x) /\ UNCHANGED stepperVars)
    \/ (Submit /\ UNCHANGED stepperVars)
    \/ (\E i \in DOMAIN requests, data \in Results : RespondOk(i, data) /\ UNCHANGED stepperVars)
    \/ (\E i \in DOMAIN requests, k \in FailureKinds : RespondFail(i, k) /\ UNCHANGED stepperVars)
    \/ (\E b \in BOOLEAN : HandleToastConfirm(b) /\ UNCHANGED stepperVars)
    \/ (Close /\ UNCHANGED stepperVars)
    \/ (Unload /\ UNCHANGED stepperVars)

FormSpec == Init /\ [][FormNext]_vars

\* The gateway answers a request in flight: the fetch promise settles and the
\* rest of handleSubmit runs.
GatewayAnswers ==
    \/ (\E i \in DOMAIN requests, data \in Results : RespondOk(i, data) /\ UNCHANGED stepperVars)
    \/ (\E i \in DOMAIN requests, k \in FailureKinds : RespondFail(i, k) /\ UNCHANGED stepperVars)

\* The form with a gateway that answers every request it has received.
FormFairSpec == Init /\ [][FormNext]_vars /\ WF_vars(GatewayAnswers)

(***************************************************************************)
(* Properties of the stepper, checked under StepperSpec                    *)
(***************************************************************************)

Min(a, b) == IF a < b THEN a ELSE b

\* C1: whatever wheel events handleWheel receives (any sign of deltaY, zero,
\* NaN, any times), activeIdx stays within 0 .. milestones.length - 1.
C1_IndexInRange == activeIdx \in 0 .. (NumMilestones - 1)

\* C1 witness: a forward event was accepted at the last index and clamped.
C1_ClampedAtLast ==
    /\ mounted
    /\ directions = "forward"
    /\ nAccepted > NumMilestones - 1
    /\ activeIdx = NumMilestones - 1

\* C2 as claimed: in every state of the mounted stepper canStart is true exactly
\* when activeIdx is the last index.
C2_FlagMatchesIndex == mounted => (canStart = (activeIdx = NumMilestones - 1))

\* C3: two accepted wheel events (the ones that change or clamp the index) of one
\* stepper are at least the throttle window apart, the index changes only in
\* an accepted event and then by one step at most; the ref that carries the
\* time survives the listener's re-attachment by the effect.
C3_AcceptedEventsSpaced ==
    [][ /\ (mounted /\ mounted' /\ activeIdx' # activeIdx)
            => /\ nAccepted' = nAccepted + 1
               /\ activeIdx' - activeIdx \in {-1, 1}
        /\ (nAccepted > 0 /\ nAccepted' = nAccepted + 1)
            => now - acceptedAt >= SCROLL_THROTTLE_MS ]_vars

\* C3 witness: an event was accepted and moved the index, the effect attached the
\* listener again, and an event inside the window was then dropped.
C3_ThrottledAfterReattach ==
    /\ mounted /\ listening /\ ~effectsPending
    /\ activeIdx = 1 /\ nAccepted = 1
    /\ wheelOutcome = "throttled"
    /\ now - acceptedAt < SCROLL_THROTTLE_MS

\* C4: from mount, k accepted forward events leave activeIdx = min(k, 5); the
\* first event after mount is accepted; with five or more, canStart is true once
\* the effect of the last move has run; accepted backward events alone leave the
\* index at 0.
C4_ForwardRun ==
    mounted =>
      /\ directions \in {"none", "forward"}
            => activeIdx = Min(nAccepted, NumMilestones - 1)
      /\ (directions = "forward" /\ nAccepted >= NumMilestones - 1 /\ ~effectsPending)
            => canStart
      /\ directions = "backward" => activeIdx = 0
      /\ wheelOutcome = "throttled" => nAccepted > 0

\* C4 witness: six forward events were accepted; the index is 5 and canStart true.
C4_SixForward ==
    /\ mounted
    /\ directions = "forward"
    /\ nAccepted = NumMilestones
    /\ activeIdx = NumMilestones - 1
    /\ canStart

\* C14 as claimed: a wheel event inside the throttle window leaves activeIdx and
\* lastScroll as they were and is consumed all the same: preventDefault is
\* called for it.
C14_ThrottledEventConsumed ==
    [][\A d \in Deltas :
          WheelThrottled(d)
             => /\ UNCHANGED <<activeIdx, lastScroll>>
                /\ wheelOutcome' = "prevented"]_vars

\* C15 as claimed: once the stepper is unmounted the wheel listener is removed and
\* the body's overflow lock is released.
C15_DetachReleasesLock ==
    ~mounted => (~listening /\ bodyOverflow # "hidden")

\* C20 as claimed: an accepted event with deltaY zero or NaN leaves activeIdx as it
\* was; the index grows only with deltaY > 0 and shrinks only with deltaY < 0.
C20_OnlySignedDeltasMove ==
    [][\A d \in Deltas :
          WheelAccepted(d)
             => /\ Direction(d) = "neither" => activeIdx' = activeIdx
                /\ activeIdx' > activeIdx => GreaterThanZero(d)
                /\ activeIdx' < activeIdx => LessThanZero(d)]_vars

(***************************************************************************)
(* Properties of the intake form, checked under FormSpec                   *)
(***************************************************************************)

fieldVars == <<age, rank, division, experience>>

\* The step is a submit gesture of the user.
SubmitGesture == lastOp' \in {"submit", "submitRejected"}

\* The step is an attempt to pick another experience option.
ExperienceAttempt == lastOp' \in {"editExperience", "editExperienceIgnored"}

\* The rank is a selected tier under the experience-eligibility threshold.
BelowThreshold(r) == r \in { rankOptions[i] : i \in 1 .. 7 }

\* The preconditions of submit(): age present and in range, rank selected,
\* division selected unless the rank is the top tier, experience selected (the
\* field reads "None" by itself under the threshold).
PreconditionsMet ==
    /\ age # "" /\ Number(age) \in 16 .. 99
    /\ rank \in Range(rankOptions)
    /\ rank # "Radiant" => division \in Range(divisionOptions)
    /\ ExperienceValue \in Range(experienceOptions)

\* C5: at most one gateway request is outstanding, one exactly while loading, and
\* a submit gesture made while loading issues no request and changes nothing of
\* the submission.
C5_SingleFlight ==
    /\ [](Len(requests) = IF loading THEN 1 ELSE 0)
    /\ [][(SubmitGesture /\ loading)
            => /\ lastOp' = "submitRejected"
               /\ UNCHANGED <<submissionVars, fieldVars, persistVars>>]_vars

\* C5 witness: a second submit gesture was made while the first request was
\* outstanding, and one fetch call has been made.
C5_SecondSubmitWhileLoading ==
    /\ lastOp = "submitRejected"
    /\ loading
    /\ Len(requests) = 1
    /\ netCalls = 1

\* C6: a submit gesture with an unmet precondition makes no gateway call and
\* leaves the submission and the fields as they were (Idle stays Idle, the form
\* stays rendered); no request is ever made from fields that miss one.
C6_RejectedLocally ==
    [][(SubmitGesture /\ ~PreconditionsMet)
         => /\ lastOp' = "submitRejected"
            /\ UNCHANGED <<submissionVars, fieldVars, persistVars>>
            /\ (Status = "Idle" => Status' = "Idle")
            /\ (FormShown => FormShown')]_vars

\* C6 witness: with a non-top rank and no division a submit gesture was refused,
\* in Idle, and no call was made.
C6_RefusedWithoutDivision ==
    /\ lastOp = "submitRejected"
    /\ FormShown
    /\ rank = "Gold" /\ division = ""
    /\ AgeValid
    /\ Status = "Idle"
    /\ netCalls = 0

\* C7: a change of rank to Radiant clears division; a submit gesture on the
\* rendered form with rank Radiant, a valid age and an experience chosen is
\* accepted with division empty; every request made for Radiant carries null as
\* its division.
C7_TopTierSendsNull ==
    /\ [][(rank' = "Radiant" /\ rank # "Radiant") => division' = ""]_vars
    /\ [][(SubmitGesture /\ FormShown /\ rank = "Radiant" /\ division = ""
             /\ age \in {"16", "99"} /\ experience # "")
            => /\ lastOp' = "submit"
               /\ requests' = Append(requests,
                     [age |-> Number(age), current_rank |-> "Radiant",
                      past_experience |-> experience, division |-> NullValue])]_vars
    /\ [](\A i \in DOMAIN requests :
             requests[i].current_rank = "Radiant" => requests[i].division = NullValue)

\* C7 witness: a request for rank Radiant is outstanding, made after a division had
\* been chosen for another rank.
C7_RadiantRequested ==
    /\ Len(requests) = 1
    /\ requests[1].current_rank = "Radiant"
    /\ requests[1].division = NullValue
    /\ division = ""

\* C8 as claimed: under the threshold the experience field reads "None", and a
\* request made there carries "None" as past_experience.
C8_NoneBelowThreshold ==
    /\ BelowThreshold(rank) => ExperienceValue = "None"
    /\ \A i \in DOMAIN requests :
          BelowThreshold(requests[i].current_rank)
             => requests[i].past_experience = "None"

\* C9 as claimed: an attempt to edit the experience while the rank is under the
\* threshold changes no field, and an edit is accepted only with rank Immortal
\* or Radiant.
C9_EditsOnlyAtOrAboveThreshold ==
    [][ /\ (ExperienceAttempt /\ BelowThreshold(rank)) => UNCHANGED fieldVars
        /\ experience' # experience => rank \in {"Immortal", "Radiant"} ]_vars

\* C9 as amended: an attempt to edit the experience while the rank is a selected
\* tier under the threshold changes no field, and an edit is accepted only with
\* rank Immortal or Radiant or with no rank selected yet.
C9_EditsOnlyWhenNotBelowThreshold ==
    [][ /\ (ExperienceAttempt /\ BelowThreshold(rank)) => UNCHANGED fieldVars
        /\ experience' # experience => rank \in {"", "Immortal", "Radiant"} ]_vars

\* C9 witness: with a rank under the threshold and an experience chosen earlier,
\* an attempt to pick another one was ignored.
C9_AttemptIgnored ==
    /\ lastOp = "editExperienceIgnored"
    /\ BelowThreshold(rank)
    /\ experience = "Tier 1"

\* C10: right after a success response the status is Succeeded, apiResult is the
\* response body and the toast condition (showToast && apiResult) holds.
C10_SuccessSignalsConfirmation ==
    lastOp = "respondOk"
       => /\ Status = "Succeeded"
          /\ apiResult = lastData
          /\ apiResult \in Results
          /\ ToastShown

\* C10 witness: a success response has just been handled.
C10_SuccessHandled ==
    /\ lastOp = "respondOk"
    /\ requests = <<>>
    /\ netCalls = 1
    /\ submitted

\* C11: a form instance writes storage once at most and navigates once at most,
\* whatever the user does after a success; right after an acknowledgment both
\* have happened exactly once.
C11_OneWriteOneNavigation ==
    /\ storageWrites <= 1
    /\ navigations <= 1
    /\ lastOp \in {"confirm", "unload"} => (storageWrites = 1 /\ navigations = 1)

\* C11 witness: after the acknowledgment, with the document still there, the user
\* acted again (Close) and there is still one write and one navigation.
C11_UserActsAfterAcknowledgment ==
    /\ lastOp = "close"
    /\ ~unloaded
    /\ storageWrites = 1
    /\ navigations = 1

\* C12 as claimed: after a failing response, from whatever state the submission
\* was made, the status is Failed and a submit gesture with valid fields is
\* accepted (the modal being open); a fetch call is made only by a submit.
C12_FailureAllowsRetry ==
    [][ /\ lastOp' = "respondFail"
            => /\ Status' = "Failed"
               /\ (Rendered' /\ PreconditionsMet') => CanSubmit'
        /\ netCalls' # netCalls => lastOp' = "submit" ]_vars

\* C13: storage is written and the location assigned only by an acknowledgment
\* taken while the status is Succeeded with apiResult present; a failing
\* response, a refused submit and a request in flight leave both alone.
C13_PersistOnlyOnAcknowledgment ==
    [][ /\ (storage' # storage \/ storageWrites' # storageWrites
              \/ location' # location \/ navigations' # navigations)
            => /\ lastOp' = "confirm"
               /\ Status = "Succeeded"
               /\ apiResult # NullValue
               /\ requests = <<>>
        /\ lastOp' \in {"respondFail", "submitRejected", "submit", "respondOk"}
            => UNCHANGED <<storage, storageWrites, location, navigations>> ]_vars

\* C13 witness: a failure, then a success, then the acknowledgment that wrote.
C13_WrittenAfterFailureAndSuccess ==
    /\ lastOp = "confirm"
    /\ netCalls = 2
    /\ error = NullValue
    /\ storageWrites = 1
    /\ location = "/career"

\* C16: the write comes before the navigation: the location is assigned only in
\* a step that has written the item, and when setItem throws the location is not
\* assigned.
C16_WriteBeforeNavigation ==
    [][ /\ (location' # location \/ navigations' # navigations)
            => /\ storageWrites' = storageWrites + 1
               /\ storage'[CareerKey] = Stringify(apiResult)
        /\ lastOp' = "confirmThrew"
            => UNCHANGED <<location, navigations, storage, storageWrites>> ]_vars

\* C16 witness: setItem threw; the page is still the landing page with its toast.
C16_WriteThrew ==
    /\ lastOp = "confirmThrew"
    /\ location = "/"
    /\ navigations = 0
    /\ ToastShown

\* C17: division is empty whenever the rank is Radiant; a division is chosen only
\* while the rank is a selected tier other than Radiant.
C17_NoDivisionAtTopTier ==
    /\ [](rank = "Radiant" => division = "")
    /\ [][(division' # division /\ division' # "")
            => /\ rank \in Range(rankOptions) \ {"Radiant"}
               /\ rank' = rank]_vars

\* C17 witness: the rank was set to Radiant on a form whose earlier submission
\* failed; the division is empty.
C17_RadiantAfterDivision ==
    /\ lastOp = "setRank"
    /\ rank = "Radiant"
    /\ division = ""
    /\ netCalls = 1
    /\ error # NullValue

\* C18: every change of the rank, between two tiers under Radiant too, leaves
\* division empty and age as it was.
C18_RankChangeResetsDivision ==
    [][rank' # rank => (division' = "" /\ age' = age)]_vars

\* C18 witness: the rank was changed to another tier under Radiant on a form whose
\* earlier submission failed; the division is empty and the age kept.
C18_RankChangedBelowTop ==
    /\ lastOp = "setRank"
    /\ rank = "Silver"
    /\ division = ""
    /\ age = "16"
    /\ netCalls = 1
    /\ error # NullValue

\* C19: what an acknowledgment stores is the whole body the gateway answered with
\* (label and career_info), under 'valorantCareer', in place of what the key
\* held; no other key changes.
C19_FullResultStored ==
    [][(lastOp' = "confirm" \/ storage' # storage)
         => /\ lastData \in Results
            /\ storage' = [storage EXCEPT ![CareerKey] = Stringify(lastData)]
            /\ storage'[CareerKey].of.starting_tier = lastData.starting_tier
            /\ storage'[CareerKey].of.career_info = lastData.career_info ]_vars

\* C19 witness: the acknowledgment stored the second body; the other key is as
\* it was.
C19_StoredSecondBody ==
    /\ lastOp = "confirm"
    /\ lastData.career_info = "infoB"
    /\ storage[CareerKey] = Stringify(lastData)
    /\ storage["otherKey"] = OtherItem

(***************************************************************************)
(* Further properties of the stepper, checked under StepperSpec            *)
(***************************************************************************)

\* C21: every accepted wheel event, one clamped at index 0 or at the last index
\* included, sets lastScroll to the time of the event, so that an event at once
\* after it is inside the window; no throttled event and no other step of the
\* mounted stepper changes lastScroll.
C21_AcceptedEventsStampTime ==
    [][ /\ nAccepted' = nAccepted + 1
            => /\ lastScroll' = now
               /\ Throttled(now', lastScroll')
        /\ (mounted /\ mounted' /\ nAccepted' = nAccepted)
            => lastScroll' = lastScroll ]_vars

\* C21 witness: only backward events were accepted, so each was clamped at index
\* 0, and the event after the last of them was throttled by the window it began.
C21_ClampedEventThrottlesNext ==
    /\ mounted
    /\ directions = "backward"
    /\ activeIdx = 0
    /\ nAccepted >= 1
    /\ lastScroll = acceptedAt
    /\ wheelOutcome = "throttled"
    /\ now > lastScroll

\* C22 as claimed: whenever the wheel listener is registered, document.body's
\* overflow is 'hidden', before the first accepted wheel event too.
C22_AttachedHoldsLock == listening => bodyOverflow = "hidden"

\* C28: canStart follows the index down as well as up: once the effect of the
\* last move has run it is true exactly at the last index, and an accepted event
\* with deltaY < 0 at the last index moves the index to the one before and
\* schedules that effect.
C28_GatingNotLatched ==
    /\ [](mounted /\ ~effectsPending => (canStart = (activeIdx = NumMilestones - 1)))
    /\ [][\A d \in Deltas :
             (WheelAccepted(d) /\ LessThanZero(d) /\ activeIdx = NumMilestones - 1)
                => /\ activeIdx' = NumMilestones - 2
                   /\ effectsPending']_vars

\* C28 witness: canStart had become true at the last index and an accepted
\* backward event has just moved the index to the one before; the effect that
\* clears canStart is scheduled.
C28_BackFromLast ==
    /\ mounted
    /\ activeIdx = NumMilestones - 2
    /\ wheelOutcome = "prevented"
    /\ directions = "mixed"
    /\ canStart
    /\ effectsPending

(***************************************************************************)
(* Further properties of the intake form, checked under FormSpec, and      *)
(* under FormFairSpec where the gateway is assumed to answer               *)
(***************************************************************************)

\* C23 as claimed: after a failing response, the modal being open, the error
\* message is on screen and the form is on screen with it.
C23_FailureShowsErrorAndForm ==
    (lastOp = "respondFail" /\ Rendered) => (ErrorShown /\ FormShown)

\* C24: apiResult is null before any submission, while a request is in flight
\* and while an error is recorded, re-submissions included; when it is not
\* null, the status is Succeeded and it is the body of the last success.
C24_ResultOnlyWhenSucceeded ==
    /\ netCalls = 0 => apiResult = NullValue
    /\ loading => apiResult = NullValue
    /\ lastOp = "respondFail" => apiResult = NullValue
    /\ apiResult # NullValue
          => /\ Status = "Succeeded"
             /\ submitted
             /\ apiResult = lastData
             /\ requests = <<>>

\* C24 witness: a second submission is in flight after one that succeeded, and
\* the result of the first is gone.
C24_ResubmissionInFlight ==
    /\ netCalls = 2
    /\ submitted
    /\ loading
    /\ apiResult = NullValue
    /\ lastData \in Results

\* C25: after a failing response of any kind the status is Failed, the error is
\* the message of the catch block, loading is false and no request is left.
C25_FailuresBecomeFailed ==
    lastOp = "respondFail"
       => /\ Status = "Failed"
          /\ error = Str(ErrorMessage)
          /\ ~loading
          /\ requests = <<>>

\* C25 witness: the first submission of a form has failed.
C25_FirstSubmissionFailed ==
    /\ lastOp = "respondFail"
    /\ netCalls = 1
    /\ ~submitted
    /\ error # NullValue

\* C26: with a gateway that answers every request (FormFairSpec), a form that is
\* loading stops loading, for as long as its document exists; loading is
\* cleared by the handling of a response and by no other step, and the status
\* is then Succeeded or Failed.
C26_SubmittingEnds ==
    /\ (loading ~> (~loading \/ unloaded))
    /\ [][(loading /\ ~loading')
            => /\ lastOp' \in {"respondOk", "respondFail"}
               /\ Status' \in {"Succeeded", "Failed"}]_vars

\* C26 witness: the only submission made was answered with success and the form
\* has left Submitting for Succeeded.
C26_AnsweredSubmission ==
    /\ netCalls = 1
    /\ lastOp = "respondOk"
    /\ requests = <<>>
    /\ ~loading
    /\ Status = "Succeeded"

\* The toast is on screen over a result that was not acknowledged yet.
AwaitingAcknowledgment == Rendered /\ ToastShown /\ Status = "Succeeded"

\* C27 as claimed: while the toast awaits the acknowledgment no submission is
\* started, no fetch call is made and apiResult stays as it is (the steps that
\* touch neither, field edits among them, are left aside here).
C27_NoSubmitBeforeAcknowledgment ==
    [][AwaitingAcknowledgment
          => /\ lastOp' # "submit"
             /\ netCalls' = netCalls
             /\ apiResult' = apiResult]_vars

\* C29: error and apiResult are never both set: a submission that starts leaves
\* both null, a success leaves the error null and a failure leaves apiResult
\* null.
C29_ErrorAndResultExclusive ==
    /\ ~(error # NullValue /\ apiResult # NullValue)
    /\ lastOp = "submit" => (error = NullValue /\ apiResult = NullValue)
    /\ lastOp = "respondOk" => (error = NullValue /\ apiResult # NullValue)
    /\ lastOp = "respondFail" => (error # NullValue /\ apiResult = NullValue)

\* C29 witness: a submission made after a success (submitted is true) has
\* failed: the error is set and the earlier result is gone.
C29_FailureAfterSuccess ==
    /\ netCalls = 2
    /\ submitted
    /\ lastOp = "respondFail"
    /\ error = Str(ErrorMessage)
    /\ apiResult = NullValue

\* C30: a change of rank leaves the experience state as it was; under the
\* threshold the select shows "None" in its place, and at Immortal or Radiant
\* it shows the stored value again.
C30_ExperienceSurvivesRankChange ==
    [][rank' # rank
          => /\ experience' = experience
             /\ BelowThreshold(rank') => ExperienceValue' = "None"
             /\ ~BelowThreshold(rank') => ExperienceValue' = experience]_vars

\* C30 witness: the rank has just been changed to Immortal and the select shows
\* the tier picked before the change.
C30_TierShownAfterRankChange ==
    /\ lastOp = "setRank"
    /\ rank = "Immortal"
    /\ experience = "Tier 2"
    /\ ExperienceValue = "Tier 2"

====
